---- MODULE Spec2Model ----
(***************************************************************************)
(* Model of the game-state update loop of snake-raylib (src/main.rs).      *)
(*                                                                         *)
(* Every Vector2 component is stored as TWICE its f32 value, so that the   *)
(* half-pixel positions produced by offset / 2.0 stay integers; all the    *)
(* values the program computes are multiples of 0.5 far below 2^24, so the *)
(* f32 arithmetic is exact and the doubled integers are a faithful image.  *)
(***************************************************************************)
EXTENDS Integers, Sequences, FiniteSets, TLC

\* ---------------------------------------------------------------- bounds
MaxCells == 4           \* largest grid of the model, in whole cells
MaxFrames == 26         \* updates of one game explored (frames_counter cap)
MaxSnake == 5           \* capacity of the snake buffer explored
MaxPressed == 2         \* keys reported as pressed in one frame

\* ------------------------------------------------------------- constants
SQUARE_SIZE == 31
MOVE_INTERVAL == 5

\* The buffer capacity (256 in the source) is scaled down to MaxSnake so
\* that a snake can fill the buffer on the grids explored.
SNAKE_LENGTH == MaxSnake

S2 == 2 * SQUARE_SIZE   \* SQUARE_SIZE as f32, doubled representation

Vec(x, y) == <<x, y>>
X(v) == v[1]
Y(v) == v[2]

Keys == {"P", "D", "A", "W", "S", "ENTER"}
\* What is_key_pressed can report in one frame.
KeySets == { k \in SUBSET Keys : Cardinality(k) <= MaxPressed }

\* Window sizes handed to init_game: every grid of at most MaxCells whole
\* cells, once as an exact multiple of the cell size and once with the
\* remainders the 800 x 450 window of main leaves (800 % 31 = 25,
\* 450 % 31 = 16).
Remainders == {<<0, 0>>, <<25, 16>>}
GridShapes ==
  { g \in (1 .. MaxCells) \X (1 .. MaxCells) : g[1] * g[2] <= MaxCells }
Windows ==
  { <<SQUARE_SIZE * g[1] + r[1], SQUARE_SIZE * g[2] + r[2]>> :
      g \in GridShapes, r \in Remainders }

\* screen_width, screen_height: the locals of main passed to every call;
\* frames_counter .. fruit: the fields of GameState;
\* crashed: the process has panicked on an out-of-bounds index;
\* loop_i: the index i of the rejection loop `for i in 0..counter_tail` of
\* the update in progress, -1 when no update is inside that loop (only the
\* specification SpecSpawn takes the loop step by step);
\* obs: history variable (see Observe), no part of the program.
VARIABLES screen_width, screen_height,
          frames_counter, game_over, pause, allow_move, counter_tail,
          offset, snake, snake_position, fruit, crashed, loop_i,
          obs

vars == <<screen_width, screen_height, frames_counter, game_over, pause,
          allow_move, counter_tail, offset, snake, snake_position, fruit,
          crashed, loop_i, obs>>

Idx == 0 .. (SNAKE_LENGTH - 1)

\* The GameState struct as one record (size and color fields never change
\* after construction and are left out; size is SQUARE_SIZE everywhere).
State ==
  [frames_counter |-> frames_counter, game_over |-> game_over,
   pause |-> pause, allow_move |-> allow_move,
   counter_tail |-> counter_tail, offset |-> offset, snake |-> snake,
   snake_position |-> snake_position, fruit |-> fruit, crashed |-> crashed]

\* GameState::new
New ==
  [frames_counter |-> 0, game_over |-> FALSE, pause |-> FALSE,
   allow_move |-> FALSE, counter_tail |-> 1, offset |-> Vec(0, 0),
   snake |-> [i \in Idx |-> [position |-> Vec(0, 0), speed |-> Vec(S2, 0)]],
   snake_position |-> [i \in Idx |-> Vec(0, 0)],
   fruit |-> [position |-> Vec(0, 0), active |-> FALSE],
   crashed |-> FALSE]

\* mutant: the reset leaves the allow_move latch as the last game left it
init_game_KeepsLatch(s, w, h) ==
  LET off == Vec(2 * (w % SQUARE_SIZE), 2 * (h % SQUARE_SIZE))
  IN [s EXCEPT
        !.frames_counter = 0,
        !.game_over = FALSE,
        !.pause = FALSE,
        !.counter_tail = 1,
        !.offset = off,
        !.snake = [i \in Idx |->
                     [position |-> Vec(X(off) \div 2, Y(off) \div 2),
                      speed |-> Vec(S2, 0)]],
        !.snake_position = [i \in Idx |-> Vec(0, 0)],
        !.fruit = [@ EXCEPT !.active = FALSE]]

\* GameState::init_game
init_game(s, w, h) ==
  LET off == Vec(2 * (w % SQUARE_SIZE), 2 * (h % SQUARE_SIZE))
  IN [s EXCEPT
        !.frames_counter = 0,
        !.game_over = FALSE,
        !.pause = FALSE,
        !.counter_tail = 1,
        !.allow_move = FALSE,
        !.offset = off,
        !.snake = [i \in Idx |->
                     [position |-> Vec(X(off) \div 2, Y(off) \div 2),
                      speed |-> Vec(S2, 0)]],
        !.snake_position = [i \in Idx |-> Vec(0, 0)],
        !.fruit = [@ EXCEPT !.active = FALSE]]

\* ------------------------------------------------- update_game, by step

\* if is_key_pressed(KEY_P) { pause = !pause }
TogglePause(s, keys) ==
  IF "P" \in keys THEN [s EXCEPT !.pause = ~s.pause] ELSE s

\* mutant: the accepted change does not close the allow_move latch
SetSpeed_NoLatch(s, v) ==
  [s EXCEPT !.snake[0].speed = v]

SetSpeed(s, v) ==
  [s EXCEPT !.snake[0].speed = v, !.allow_move = FALSE]

KeyD(s, keys) ==
  IF "D" \in keys /\ X(s.snake[0].speed) = 0 /\ s.allow_move
  THEN SetSpeed(s, Vec(S2, 0)) ELSE s

\* mutant: the left key is accepted without the axis test
KeyA_NoAxisTest(s, keys) ==
  IF "A" \in keys /\ s.allow_move
  THEN SetSpeed(s, Vec(-S2, 0)) ELSE s

KeyA(s, keys) ==
  IF "A" \in keys /\ X(s.snake[0].speed) = 0 /\ s.allow_move
  THEN SetSpeed(s, Vec(-S2, 0)) ELSE s

\* mutant: the W test adds the upward velocity to the current one
KeyW_AddsSpeed(s, keys) ==
  IF "W" \in keys /\ Y(s.snake[0].speed) = 0 /\ s.allow_move
  THEN SetSpeed(s, Vec(X(s.snake[0].speed), -S2)) ELSE s

KeyW(s, keys) ==
  IF "W" \in keys /\ Y(s.snake[0].speed) = 0 /\ s.allow_move
  THEN SetSpeed(s, Vec(0, -S2)) ELSE s

\* mutant: the S test does not look at the allow_move latch
KeyS_NoLatchTest(s, keys) ==
  IF "S" \in keys /\ Y(s.snake[0].speed) = 0
  THEN SetSpeed(s, Vec(0, S2)) ELSE s

KeyS(s, keys) ==
  IF "S" \in keys /\ Y(s.snake[0].speed) = 0 /\ s.allow_move
  THEN SetSpeed(s, Vec(0, S2)) ELSE s

\* the four direction tests, in source order
HandleKeys(s, keys) == KeyS(KeyW(KeyA(KeyD(s, keys), keys), keys), keys)

\* for i in 0..counter_tail { snake_position[i] = snake[i].position }
StorePositions(s) ==
  [s EXCEPT !.snake_position =
     [i \in Idx |-> IF i < s.counter_tail THEN s.snake[i].position
                    ELSE s.snake_position[i]]]

\* mutant: the shift runs on the frame after each multiple of the interval
IsMoveFrame_OneLate(s) == s.frames_counter % MOVE_INTERVAL = 1

IsMoveFrame(s) == s.frames_counter % MOVE_INTERVAL = 0

\* mutant: segment i takes its own history position instead of that of
\* the segment ahead of it
Shift_OwnHistory(s) ==
  [s EXCEPT
     !.snake = [i \in Idx |->
        IF i = 0
        THEN [s.snake[0] EXCEPT !.position =
                Vec(X(s.snake[0].position) + X(s.snake[0].speed),
                    Y(s.snake[0].position) + Y(s.snake[0].speed))]
        ELSE IF i < s.counter_tail
             THEN [s.snake[i] EXCEPT !.position = s.snake_position[i]]
             ELSE s.snake[i]],
     !.allow_move = TRUE]

\* the body of `if frames_counter % 5 == 0`
Shift(s) ==
  [s EXCEPT
     !.snake = [i \in Idx |->
        IF i = 0
        THEN [s.snake[0] EXCEPT !.position =
                Vec(X(s.snake[0].position) + X(s.snake[0].speed),
                    Y(s.snake[0].position) + Y(s.snake[0].speed))]
        ELSE IF i < s.counter_tail
             THEN [s.snake[i] EXCEPT !.position = s.snake_position[i - 1]]
             ELSE s.snake[i]],
     !.allow_move = TRUE]

MoveSnake(s) == IF IsMoveFrame(s) THEN Shift(s) ELSE s

\* mutant: the last column and the last row already count as the wall
HitsWall_LastCellIsWall(s, w, h) ==
  \/ X(s.snake[0].position) > 2 * w - X(s.offset) - S2
  \/ Y(s.snake[0].position) > 2 * h - Y(s.offset) - S2
  \/ X(s.snake[0].position) < 0
  \/ Y(s.snake[0].position) < 0

HitsWall(s, w, h) ==
  \/ X(s.snake[0].position) > 2 * w - X(s.offset)
  \/ Y(s.snake[0].position) > 2 * h - Y(s.offset)
  \/ X(s.snake[0].position) < 0
  \/ Y(s.snake[0].position) < 0

WallCollision(s, w, h) ==
  IF HitsWall(s, w, h) THEN [s EXCEPT !.game_over = TRUE] ELSE s

HitsSelf(s) ==
  \E i \in 1 .. (s.counter_tail - 1) :
     s.snake[0].position = s.snake[i].position

SelfCollision(s) ==
  IF HitsSelf(s) THEN [s EXCEPT !.game_over = TRUE] ELSE s

\* mutant: the ranges of the two draws include their upper ends
RandomCells_Inclusive(s, w, h) ==
  { Vec(cx * S2 + X(s.offset) \div 2, cy * S2 + Y(s.offset) \div 2) :
      cx \in 0 .. (w \div SQUARE_SIZE),
      cy \in 0 .. (h \div SQUARE_SIZE) }

\* mutant: both draws always give 0
RandomCells_OnlyOrigin(s, w, h) ==
  { Vec(X(s.offset) \div 2, Y(s.offset) \div 2) }

\* Every value one sample of the two gen_range calls can produce.
RandomCells(s, w, h) ==
  { Vec(cx * S2 + X(s.offset) \div 2, cy * S2 + Y(s.offset) \div 2) :
      cx \in 0 .. ((w \div SQUARE_SIZE) - 1),
      cy \in 0 .. ((h \div SQUARE_SIZE) - 1) }

\* The rejection loop `for i in 0..counter_tail { while fruit == snake[i]
\* { resample } }`: P is the set of positions the fruit may hold when the
\* loop reaches segment i; a position equal to snake[i] is resampled until
\* it differs from snake[i] (and from nothing else).
RECURSIVE RejectFrom(_, _, _, _)
RejectFrom(s, i, P, cells) ==
  IF i >= s.counter_tail THEN P
  ELSE LET here == s.snake[i].position
       IN RejectFrom(s, i + 1,
             (P \ {here}) \cup (IF here \in P THEN cells \ {here} ELSE {}),
             cells)

\* Positions the spawn step can leave the fruit at (terminating runs).
SpawnOutcomes(s, w, h) ==
  RejectFrom(s, 0, RandomCells(s, w, h), RandomCells(s, w, h))

\* the body of `if !fruit.active`, p being the position the loops end with
SpawnFruit(s, p) ==
  IF ~s.fruit.active
  THEN [s EXCEPT !.fruit = [position |-> p, active |-> TRUE]]
  ELSE s

\* axis-aligned bounding-box test of head against fruit
HeadOnFruit(s) ==
  /\ X(s.snake[0].position) < X(s.fruit.position) + S2
  /\ X(s.snake[0].position) + S2 > X(s.fruit.position)
  /\ Y(s.snake[0].position) < Y(s.fruit.position) + S2
  /\ Y(s.snake[0].position) + S2 > Y(s.fruit.position)

\* the body of the overlap test; it is entered with counter_tail below
\* SNAKE_LENGTH
Grow(s) ==
  [s EXCEPT
     !.snake[s.counter_tail].position = s.snake_position[s.counter_tail - 1],
     !.counter_tail = s.counter_tail + 1,
     !.fruit.active = FALSE]

\* With counter_tail = SNAKE_LENGTH the write to snake[counter_tail] is
\* out of bounds: the index check panics and the process ends.
EatFruit(s) ==
  IF HeadOnFruit(s)
  THEN IF s.counter_tail >= SNAKE_LENGTH
       THEN [s EXCEPT !.crashed = TRUE]
       ELSE Grow(s)
  ELSE s

NextFrame(s) ==
  IF s.crashed THEN s ELSE [s EXCEPT !.frames_counter = s.frames_counter + 1]

\* The non-paused branch up to the self-collision test.
BeforeSpawn(s, keys, w, h) ==
  SelfCollision(WallCollision(MoveSnake(StorePositions(HandleKeys(s, keys))),
                              w, h))

\* The rest of the non-paused branch; p is the outcome of the spawn step.
FinishFrame(b, p) == NextFrame(EatFruit(SpawnFruit(b, p)))

\* The whole non-paused branch.
PlayFrame(s, keys, p, w, h) == FinishFrame(BeforeSpawn(s, keys, w, h), p)

\* mutant: the frame counter also advances while the game is paused
update_game_PausedCounts(s, keys, p, w, h) ==
  IF ~s.game_over
  THEN LET t == TogglePause(s, keys)
       IN IF ~t.pause THEN PlayFrame(t, keys, p, w, h) ELSE NextFrame(t)
  ELSE IF "ENTER" \in keys
       THEN [init_game(s, w, h) EXCEPT !.game_over = FALSE]
       ELSE s

\* mutant: the pause key is handled after game over as well
update_game_PauseWhenOver(s, keys, p, w, h) ==
  IF ~s.game_over
  THEN LET t == TogglePause(s, keys)
       IN IF ~t.pause THEN PlayFrame(t, keys, p, w, h) ELSE t
  ELSE IF "ENTER" \in keys
       THEN [init_game(s, w, h) EXCEPT !.game_over = FALSE]
       ELSE TogglePause(s, keys)

\* mutant: the pause key is handled at the end of the update
update_game_PauseLast(s, keys, p, w, h) ==
  IF ~s.game_over
  THEN IF ~s.pause
       THEN TogglePause(PlayFrame(s, keys, p, w, h), keys)
       ELSE TogglePause(s, keys)
  ELSE IF "ENTER" \in keys
       THEN [init_game(s, w, h) EXCEPT !.game_over = FALSE]
       ELSE s

\* update_game as a function of the state, the keys pressed this frame and
\* the outcome of the random draws.
update_game(s, keys, p, w, h) ==
  IF ~s.game_over
  THEN LET t == TogglePause(s, keys)
       IN IF ~t.pause THEN PlayFrame(t, keys, p, w, h) ELSE t
  ELSE IF "ENTER" \in keys
       THEN [init_game(s, w, h) EXCEPT !.game_over = FALSE]
       ELSE s

\* ------------------------------------------------------- observations
\* obs is a history variable: it records what the updates did and is read
\* by no operator above.
\*   turns    direction changes applied by the key handling since the last
\*            shift (the key handling of a movement frame belongs to the
\*            interval its shift closes)
\*   valid    a direction key whose axis test passed was handled in that
\*            interval
\*   first    the velocity the first of those changes set
\*   opened   the interval was opened by a shift of the current game
\*   shifted  the last non-paused update moved the snake
\*   refused  the last non-paused update moved the snake after handling,
\*            with allow_move set, a direction key on the axis the head
\*            was already moving along
\*   overlap  the last non-paused update found the head on the fruit cell
\*   step     what the last shift of the current game added to the head
\*            position, (0, 0) before the first shift
NoObs ==
  [turns |-> 0, valid |-> FALSE, first |-> Vec(0, 0), opened |-> FALSE,
   shifted |-> FALSE, refused |-> FALSE, overlap |-> FALSE,
   step |-> Vec(0, 0)]

\* The states the four direction tests go through, in source order.
KeyTrace(s, keys) ==
  LET s1 == KeyD(s, keys)
      s2 == KeyA(s1, keys)
      s3 == KeyW(s2, keys)
      s4 == KeyS(s3, keys)
  IN <<s, s1, s2, s3, s4>>

KeyOrder == <<"D", "A", "W", "S">>
\* the k-th direction test
KeyStep(k, s, keys) ==
  CASE k = 1 -> KeyD(s, keys)
    [] k = 2 -> KeyA(s, keys)
    [] k = 3 -> KeyW(s, keys)
    [] k = 4 -> KeyS(s, keys)
\* component of the head velocity the test of the k-th key looks at
AxisSpeed(s, k) ==
  IF k <= 2 THEN X(s.snake[0].speed) ELSE Y(s.snake[0].speed)

Abs(n) == IF n < 0 THEN -n ELSE n
\* two S x S squares share interior points
Overlaps(a, b) == Abs(X(a) - X(b)) < S2 /\ Abs(Y(a) - Y(b)) < S2

\* obs after a non-paused update: t is the state once the pause key is
\* handled, b the state before the spawn step and m the state after it.
Observe(o, t, keys, b, m) ==
  LET tr == KeyTrace(t, keys)
      changed == { k \in 1 .. 4 :
                     tr[k + 1].snake[0].speed # tr[k].snake[0].speed }
      base == IF o.shifted
              THEN [NoObs EXCEPT !.opened = TRUE]
              ELSE [o EXCEPT !.shifted = FALSE]
      firstK == CHOOSE k \in changed : \A j \in changed : k <= j
      moved == \E i \in Idx : b.snake[i].position # t.snake[i].position
  IN [turns |-> base.turns + Cardinality(changed),
      valid |-> base.valid \/ \E k \in 1 .. 4 :
                   KeyOrder[k] \in keys /\ AxisSpeed(tr[k], k) = 0,
      first |-> IF base.turns = 0 /\ changed # {}
                THEN tr[firstK + 1].snake[0].speed ELSE base.first,
      opened |-> base.opened,
      shifted |-> moved,
      refused |-> /\ moved
                  /\ \E k \in 1 .. 4 :
                       /\ KeyOrder[k] \in keys
                       /\ tr[k].allow_move
                       /\ AxisSpeed(tr[k], k) # 0,
      overlap |-> Overlaps(m.snake[0].position, m.fruit.position),
      step |-> IF moved
               THEN Vec(X(b.snake[0].position) - X(t.snake[0].position),
                        Y(b.snake[0].position) - Y(t.snake[0].position))
               ELSE o.step]

InstallFields(t) ==
  /\ frames_counter' = t.frames_counter
  /\ game_over' = t.game_over
  /\ pause' = t.pause
  /\ allow_move' = t.allow_move
  /\ counter_tail' = t.counter_tail
  /\ offset' = t.offset
  /\ snake' = t.snake
  /\ snake_position' = t.snake_position
  /\ fruit' = t.fruit
  /\ crashed' = t.crashed
  /\ UNCHANGED <<screen_width, screen_height>>

Install(t) == InstallFields(t) /\ UNCHANGED loop_i

\* main: GameState::new() followed by init_game(screen_width, screen_height)
InitIn(windows) ==
  /\ \E win \in windows : screen_width = win[1] /\ screen_height = win[2]
  /\ LET t == init_game(New, screen_width, screen_height)
     IN /\ frames_counter = t.frames_counter
        /\ game_over = t.game_over
        /\ pause = t.pause
        /\ allow_move = t.allow_move
        /\ counter_tail = t.counter_tail
        /\ offset = t.offset
        /\ snake = t.snake
        /\ snake_position = t.snake_position
        /\ fruit = t.fruit
        /\ crashed = t.crashed
  /\ loop_i = -1
  /\ obs = NoObs

Init == InitIn(Windows)

\* One iteration of the main loop whose update runs the non-paused branch.
\* The spawn step is entered with the state b and ends with some outcome p
\* of its rejection loops; where the loops cannot end (no cell differs
\* from the segment tested) the update never returns and there is no step.
UpdatePlaying ==
  /\ ~crashed /\ loop_i < 0
  /\ frames_counter < MaxFrames
  /\ ~game_over
  /\ \E keys \in KeySets :
       LET t == TogglePause(State, keys)
           b == BeforeSpawn(t, keys, screen_width, screen_height)
       IN /\ ~t.pause
          /\ \E p \in SpawnOutcomes(b, screen_width, screen_height) :
               /\ Install(update_game(State, keys, p,
                                      screen_width, screen_height))
               /\ obs' = Observe(obs, t, keys, b, SpawnFruit(b, p))

\* An update that ends paused.
UpdatePaused ==
  /\ ~crashed /\ loop_i < 0
  /\ ~game_over
  /\ \E keys \in KeySets :
       /\ TogglePause(State, keys).pause
       /\ Install(update_game(State, keys, fruit.position,
                              screen_width, screen_height))
       /\ obs' = obs

\* An update after game over without the confirm key.
UpdateOver ==
  /\ ~crashed /\ loop_i < 0
  /\ game_over
  /\ \E keys \in KeySets :
       /\ "ENTER" \notin keys
       /\ Install(update_game(State, keys, fruit.position,
                              screen_width, screen_height))
       /\ obs' = obs

\* An update after game over that observes the confirm key.
UpdateReplay ==
  /\ ~crashed /\ loop_i < 0
  /\ game_over
  /\ \E keys \in KeySets :
       /\ "ENTER" \in keys
       /\ Install(update_game(State, keys, fruit.position,
                              screen_width, screen_height))
       /\ obs' = NoObs

Next == UpdatePlaying \/ UpdatePaused \/ UpdateOver \/ UpdateReplay

Spec == Init /\ [][Next]_vars

\* ------------------------------------ the rejection loop, step by step
\* SpecSpawn runs the same program with the spawn step of update_game taken
\* one loop test at a time. While loop_i >= 0 the fields hold the state of
\* the update in progress.

\* An update of the non-paused branch that finds the fruit active: the
\* spawn step is skipped.
UpdateNoSpawn ==
  /\ ~crashed /\ loop_i < 0
  /\ frames_counter < MaxFrames
  /\ ~game_over
  /\ \E keys \in KeySets :
       LET t == TogglePause(State, keys)
           b == BeforeSpawn(t, keys, screen_width, screen_height)
       IN /\ ~t.pause
          /\ b.fruit.active
          /\ Install(update_game(State, keys, fruit.position,
                                 screen_width, screen_height))
  /\ obs' = obs

\* The same update finding the fruit inactive, up to the first sample:
\* fruit.active = true, fruit.position = the first draw, and the for loop
\* starts at i = 0.
SpawnEnter ==
  /\ ~crashed /\ loop_i < 0
  /\ frames_counter < MaxFrames
  /\ ~game_over
  /\ \E keys \in KeySets :
       LET t == TogglePause(State, keys)
           b == BeforeSpawn(t, keys, screen_width, screen_height)
       IN /\ ~t.pause
          /\ ~b.fruit.active
          /\ \E p \in RandomCells(b, screen_width, screen_height) :
               InstallFields(SpawnFruit(b, p))
  /\ loop_i' = 0
  /\ obs' = obs

\* `while fruit.position == snake[i].position` found true: the body draws
\* the position again, here the cell p.
SpawnResampleTo(p) ==
  /\ loop_i >= 0 /\ loop_i < counter_tail
  /\ fruit.position = snake[loop_i].position
  /\ fruit' = [fruit EXCEPT !.position = p]
  /\ UNCHANGED <<screen_width, screen_height, frames_counter, game_over,
                 pause, allow_move, counter_tail, offset, snake,
                 snake_position, crashed, loop_i, obs>>

SpawnResample ==
  \E p \in RandomCells(State, screen_width, screen_height) :
     SpawnResampleTo(p)

\* a draw that ends the while loop of segment i
SpawnResampleAway ==
  \E p \in RandomCells(State, screen_width, screen_height) :
     SpawnResampleTo(p) /\ p # snake[loop_i].position

\* the while test found false: the for loop goes on to the next segment
SpawnNextSegment ==
  /\ loop_i >= 0 /\ loop_i < counter_tail
  /\ fruit.position # snake[loop_i].position
  /\ loop_i' = loop_i + 1
  /\ UNCHANGED <<screen_width, screen_height, frames_counter, game_over,
                 pause, allow_move, counter_tail, offset, snake,
                 snake_position, fruit, crashed, obs>>

\* the for loop is done: the update runs the overlap test and advances
\* the frame counter
SpawnExit ==
  /\ loop_i >= 0 /\ loop_i >= counter_tail
  /\ InstallFields(NextFrame(EatFruit(State)))
  /\ loop_i' = -1
  /\ obs' = obs

NextSpawn ==
  \/ UpdateNoSpawn \/ SpawnEnter \/ SpawnResample \/ SpawnNextSegment
  \/ SpawnExit \/ UpdatePaused \/ UpdateOver \/ UpdateReplay

\* The update runs on one thread, so a loop test that can be taken is
\* taken; the draws are fair: a loop that keeps drawing draws, sooner or
\* later, a cell other than the one it is rejecting, if there is one.
SpecSpawn ==
  /\ Init /\ [][NextSpawn]_vars
  /\ WF_vars(SpawnResampleAway)
  /\ WF_vars(SpawnNextSegment)
  /\ WF_vars(SpawnExit)

\* --------------------------------------- a grid larger than the buffer
\* SpecLong runs the same program in a window whose grid is one row of
\* SNAKE_LENGTH + 2 cells, with the margins of the 800 x 450 window: the
\* snake can eat SNAKE_LENGTH fruits in a row without leaving the grid.
LongWindows ==
  { <<SQUARE_SIZE * (SNAKE_LENGTH + 2) + 25, SQUARE_SIZE + 16>> }

SpecLong == InitIn(LongWindows) /\ [][Next]_vars

\* ------------------------------------------------------ claim vocabulary
Live == 0 .. (counter_tail - 1)
Cols == screen_width \div SQUARE_SIZE
Rows == screen_height \div SQUARE_SIZE
CellPos(cx, cy) == Vec(cx * S2 + X(offset) \div 2, cy * S2 + Y(offset) \div 2)
GridCells == { CellPos(cx, cy) : cx \in 0 .. (Cols - 1), cy \in 0 .. (Rows - 1) }
HeadOutside == snake[0].position \notin GridCells
HeadPos == snake[0].position
HeadSpeed == snake[0].speed
Neg(v) == Vec(-X(v), -Y(v))
Plus(a, b) == Vec(X(a) + X(b), Y(a) + Y(b))
\* the fields of GameState other than pause
FieldsButPause ==
  <<frames_counter, game_over, allow_move, counter_tail, offset, snake,
    snake_position, fruit, crashed>>
\* a step of the non-paused branch: the game was not over and the update
\* ends with the pause flag clear
PlayStep == ~game_over /\ ~pause'

\* the state of the game's state machine an update ends in
GameClass ==
  IF game_over THEN "GameOver" ELSE IF pause THEN "Paused" ELSE "Playing"

\* ----------------------------------------------------------------- C1
\* C1: at the end of every update, an active fruit is on no live segment.
C1_FruitNeverOnSnake ==
  (~crashed /\ fruit.active) =>
     \A i \in Live : fruit.position # snake[i].position

\* ----------------------------------------------------------------- C2
\* C2: for every window size, whenever a non-paused update ends with the
\* head outside the grid of floor(W/S) x floor(H/S) cells laid out from
\* offset/2, game_over is set.
C2_WallCollision ==
  (~crashed /\ ~pause /\ HeadOutside) => game_over

\* ----------------------------------------------------------------- C3
\* C3: no state with game_over = false has the head on the cell of another
\* live segment.
C3_SelfCollision ==
  (~crashed /\ ~game_over) =>
     \A i \in 1 .. (counter_tail - 1) : HeadPos # snake[i].position

\* ----------------------------------------------------------------- C4
\* C4: a non-paused update in which the head overlaps the fruit grows the
\* snake by exactly one segment, deactivates the fruit and puts the new
\* tail at the history position of the previous tail, a cell other than
\* the one the previous tail ends the update on; without an overlap the
\* length is unchanged.
C4_EatingFruit ==
  [][PlayStep =>
       IF obs'.overlap
       THEN /\ counter_tail' = counter_tail + 1
            /\ ~fruit'.active
            /\ snake'[counter_tail].position =
                 snake_position'[counter_tail - 1]
            /\ snake'[counter_tail].position #
                 snake'[counter_tail - 1].position
       ELSE counter_tail' = counter_tail]_vars

\* ----------------------------------------------------------------- C5
\* C5: whenever game_over is false the live segments are on pairwise
\* different cells.
C5_DistinctSegments ==
  (~crashed /\ ~game_over) =>
     \A i, j \in Live : i # j => snake[i].position # snake[j].position

\* ----------------------------------------------------------------- C6
\* C6: a direction key on the axis the head is moving along is ignored,
\* whatever allow_move and the other keys of the frame are: each of the
\* four tests leaves the state alone when its axis component of the head
\* velocity is not zero, and no non-paused update turns the velocity into
\* anything but itself or a perpendicular unit move.
C6_NoReversal ==
  [][PlayStep =>
       /\ \A k \in 1 .. 4 : \A am \in BOOLEAN :
            LET s == [State EXCEPT !.allow_move = am]
            IN AxisSpeed(s, k) # 0 => KeyStep(k, s, {KeyOrder[k]}) = s
       /\ HeadSpeed' # Neg(HeadSpeed)
       /\ HeadSpeed' # HeadSpeed =>
            X(HeadSpeed') * X(HeadSpeed) + Y(HeadSpeed') * Y(HeadSpeed) = 0]_vars

\* a key to go up or down was handled with allow_move set while the head
\* was going down, no turn was taken and the head then advanced downwards
C6_Witness ==
  /\ obs.refused /\ obs.shifted /\ obs.opened /\ obs.turns = 0
  /\ ~game_over /\ ~pause
  /\ HeadSpeed = Vec(0, S2)
  /\ counter_tail >= 2 /\ HeadPos = Plus(snake[1].position, Vec(0, S2))

\* ----------------------------------------------------------------- C7
\* C7: between two consecutive shifts of a game the key handling changes
\* the head velocity at most once; it changes it exactly once when a
\* direction key passing the axis test is handled in between, and the
\* velocity then is the one the first accepted change set. (The reset of
\* the velocity by init_game starts a new game and is not a direction
\* change; before the first shift of a game the latch is closed.)
C7_OneTurnPerTick ==
  /\ obs.turns <= 1
  /\ (obs.opened /\ obs.valid) => obs.turns = 1
  /\ obs.turns = 1 => (obs.valid /\ HeadSpeed = obs.first)

\* an interval opened and closed by shifts in which a turn was accepted
C7_Witness ==
  /\ obs.opened /\ obs.shifted /\ obs.valid /\ obs.turns = 1
  /\ ~game_over /\ HeadSpeed = Vec(-S2, 0)

\* ----------------------------------------------------------------- C8
\* C8: on a movement frame every live segment but the head takes the
\* position its predecessor had before the update and the head advances
\* by its velocity; on any other non-paused frame no live segment moves.
C8_ShiftByOne ==
  [][PlayStep =>
       IF frames_counter % MOVE_INTERVAL = 0
       THEN /\ \A i \in 1 .. (counter_tail - 1) :
                 snake'[i].position = snake[i - 1].position
            /\ HeadPos' = Plus(HeadPos, HeadSpeed')
       ELSE \A i \in Live : snake'[i].position = snake[i].position]_vars

\* a shift of a snake of at least two segments lying on different cells
C8_Witness ==
  /\ obs.shifted /\ ~obs.overlap /\ counter_tail >= 3
  /\ snake[1].position # snake[2].position
  /\ HeadPos # snake[1].position

\* ----------------------------------------------------------------- C9
\* C9: an update that is paused once the pause key is handled changes no
\* field of the game state but the pause flag.
C9_PauseFreeze ==
  [][(~game_over /\ pause') => UNCHANGED FieldsButPause]_vars

\* a pause taken in mid-game, on a frame that is not a movement frame
C9_Witness ==
  /\ pause /\ ~game_over /\ counter_tail >= 2 /\ fruit.active
  /\ frames_counter % MOVE_INTERVAL = 2

\* ---------------------------------------------------------------- C10
\* C10: once game_over is set, an update without the confirm key changes
\* nothing, so the only step that leaves a game-over state clears
\* game_over.
C10_GameOverFreeze ==
  [][game_over =>
       /\ \A keys \in KeySets :
            "ENTER" \notin keys =>
               update_game(State, keys, fruit.position,
                           screen_width, screen_height) = State
       /\ ~game_over']_vars

\* a game ended while paused keys and turns were still possible
C10_Witness ==
  /\ game_over /\ ~pause /\ ~crashed /\ counter_tail >= 2 /\ allow_move

\* ---------------------------------------------------------------- C11
\* C11: every update that changes a game-over state (the update that sees
\* the confirm key, by C10) ends with game_over and pause cleared, one
\* live segment, frame counter 0, the allow_move latch closed, the head at
\* (offset.x / 2, offset.y / 2) with velocity (+S, 0) and the fruit
\* inactive; it runs no step of the playing branch: no segment is moved
\* off the start cell, the frame counter is not advanced and no fruit is
\* placed.
C11_Replay ==
  [][game_over =>
       /\ ~game_over' /\ ~pause'
       /\ counter_tail' = 1
       /\ frames_counter' = 0
       /\ ~allow_move'
       /\ HeadPos' = Vec(X(offset') \div 2, Y(offset') \div 2)
       /\ HeadSpeed' = Vec(S2, 0)
       /\ ~fruit'.active /\ fruit'.position = fruit.position
       /\ \A i \in Idx : snake'[i].position = HeadPos']_vars

\* the start of a second game: the state is the start state but the fruit
\* of the game before is still where it was
C11_Witness ==
  /\ ~game_over /\ ~pause /\ frames_counter = 0 /\ counter_tail = 1
  /\ ~fruit.active /\ fruit.position # Vec(0, 0)

\* ---------------------------------------------------------------- C12
\* C12 (as claimed): an update keeps the state of the state machine or
\* takes one of Playing -> Paused, Paused -> Playing, Playing -> GameOver,
\* GameOver -> Playing; in particular no update takes Paused to GameOver
\* or GameOver to Paused.
C12_Transitions ==
  [][LET move == <<GameClass, GameClass'>>
     IN move \in
          {<<c, c>> : c \in {"Playing", "Paused", "GameOver"}}
            \cup {<<"Playing", "Paused">>, <<"Paused", "Playing">>,
                  <<"Playing", "GameOver">>, <<"GameOver", "Playing">>}]_vars

\* C12 (amended): an update keeps the state of the state machine or takes
\* one of Playing -> Paused, Paused -> Playing, Playing -> GameOver,
\* GameOver -> Playing and Paused -> GameOver (the update that handles the
\* pause key while paused goes on to run the whole playing branch, and may
\* collide in it); no update takes GameOver to Paused, and every update
\* that sets game_over ends with the head outside the grid or on the cell
\* of another segment that was live when the collision tests ran.
C12_TransitionsAmended ==
  [][/\ LET move == <<GameClass, GameClass'>>
        IN move \in
          {<<c, c>> : c \in {"Playing", "Paused", "GameOver"}}
            \cup {<<"Playing", "Paused">>, <<"Paused", "Playing">>,
                  <<"Playing", "GameOver">>, <<"GameOver", "Playing">>,
                  <<"Paused", "GameOver">>}
     /\ (~game_over /\ game_over') =>
           \/ HeadOutside'
           \/ \E i \in 1 .. (counter_tail - 1) :
                 HeadPos' = snake'[i].position]_vars

\* a game ended by a self collision, the head still inside the grid
C12_Witness ==
  /\ GameClass = "GameOver" /\ ~HeadOutside /\ ~crashed
  /\ \E i \in 1 .. (counter_tail - 1) : HeadPos = snake[i].position

C14_InitFullReset ==
  [][game_over =>
       /\ State' = init_game(New, screen_width, screen_height)
       /\ init_game(State', screen_width, screen_height) = State']_vars

\* ---------------------------------------------------------------- C15
\* C15: an update that is inside the rejection loop while some grid cell
\* is on no live segment leaves the loop: with fair draws the loop
\* terminates and the update goes on to its end.
C15_SpawnTerminates ==
  (/\ loop_i >= 0
   /\ \E c \in GridCells : \A i \in Live : snake[i].position # c)
     ~> (loop_i < 0)

\* inside the loop of a snake of three segments, at the last of them, with
\* the fruit drawn onto that segment: a resample is due
C15_Witness ==
  /\ loop_i = 2 /\ counter_tail = 3
  /\ fruit.position = snake[2].position
  /\ \E c \in GridCells : \A i \in Live : snake[i].position # c

\* ---------------------------------------------------------------- C16
\* C16: whenever the fruit is active its position is that of a grid cell,
\* (offset.x/2 + S*cx, offset.y/2 + S*cy) with 0 <= cx < floor(W/S) and
\* 0 <= cy < floor(H/S), and a head on that cell passes the wall test;
\* this holds after the first sample and after every resample.
C16_FruitInsideGrid ==
  fruit.active =>
     /\ fruit.position \in GridCells
     /\ ~HitsWall([State EXCEPT !.snake[0].position = fruit.position],
                  screen_width, screen_height)

\* inside the rejection loop at the second segment, the fruit on the cell
\* of the head: the test against the head was passed before, so the fruit
\* is where a resample made for the second segment put it
C16_Witness ==
  /\ fruit.active /\ loop_i = 1 /\ counter_tail >= 2
  /\ fruit.position = snake[0].position
  /\ fruit.position \in GridCells

\* ---------------------------------------------------------------- C17
\* C17: on a grid with more cells than the snake buffer has segments,
\* every reachable state has 1 <= counter_tail <= SNAKE_LENGTH and the
\* growth step has never indexed the buffer outside 0 .. SNAKE_LENGTH - 1.
C17_LengthWithinBuffer ==
  (Cols * Rows > SNAKE_LENGTH) =>
     /\ 1 <= counter_tail /\ counter_tail <= SNAKE_LENGTH
     /\ ~crashed

\* ---------------------------------------------------------------- C18
\* C18: what a movement tick adds to the head position is never the exact
\* opposite of what the movement tick before it, in the same game, added,
\* whatever keys the updates in between and the tick itself handled.
C18_NeverDoublesBack ==
  [][(PlayStep /\ HeadPos' # HeadPos /\ obs.step # Vec(0, 0)) =>
       Plus(HeadPos', Neg(HeadPos)) # Neg(obs.step)]_vars

\* a tick upwards that followed a tick to the right, closed by a shift
\* that handled a direction key on the axis of movement with the latch
\* open and refused it
C18_Witness ==
  /\ obs.shifted /\ obs.refused /\ obs.step = Vec(0, -S2)
  /\ counter_tail >= 3 /\ ~game_over
  /\ snake[1].position = Plus(snake[2].position, Vec(S2, 0))
  /\ HeadPos = Plus(snake[1].position, Vec(0, -S2))

\* ---------------------------------------------------------------- C19
\* C19: no reachable state has game_over and pause both set, so Playing,
\* Paused and GameOver partition the reachable states, and the update
\* that leaves a game-over state ends in Playing.
C19_PausedXorOver ==
  /\ ~(game_over /\ pause)
  /\ game_over => ~update_game(State, {"ENTER"}, fruit.position,
                               screen_width, screen_height).pause

\* a game over set by a movement frame that took a head turned downwards
\* out of the grid; the pause flag is clear
C19_Witness ==
  /\ game_over /\ ~pause /\ ~crashed
  /\ frames_counter % MOVE_INTERVAL = 1
  /\ HeadSpeed = Vec(0, S2) /\ HeadOutside

\* ---------------------------------------------------------------- C20
\* C20: the head velocity is always one of (+S, 0), (-S, 0), (0, -S),
\* (0, +S): never zero and never diagonal, at the end of an update and
\* after each of the four direction tests, whatever keys one frame holds.
C20_AxisVelocity ==
  LET axis == {Vec(S2, 0), Vec(-S2, 0), Vec(0, -S2), Vec(0, S2)}
  IN /\ HeadSpeed \in axis
     /\ \A k \in 1 .. 4, am \in BOOLEAN :
          KeyStep(k, [State EXCEPT !.allow_move = am],
                  {KeyOrder[k]}).snake[0].speed \in axis

\* a head turned left after a tick downwards, itself the result of a turn
C20_Witness ==
  /\ HeadSpeed = Vec(-S2, 0) /\ obs.turns = 1 /\ obs.valid
  /\ obs.step = Vec(0, S2) /\ ~game_over /\ counter_tail >= 2
====
